---- MODULE Spec2Model ----
(***************************************************************************)
(* A model of src/src/main.ts, the pull-request reviewer: main() reads the *)
(* trigger payload, fetches the diff, analyzeCode() groups each file's     *)
(* chunks into prompts, getAIResponse() asks the completion service,       *)
(* createComment() validates the replies, and one review is submitted.     *)
(*                                                                         *)
(* JavaScript values are modelled as follows.                              *)
(*  - a number is a record [cls, n]: cls "int" is the integer n, "frac" is *)
(*    n + 0.5, "inf" is +Infinity and "nan" is NaN;                        *)
(*  - undefined (an absent JSON field, an absent file.to) is Undefined;    *)
(*  - a chunk is [content, changes]: content is the sequence of the chunk  *)
(*    headers it holds (joining with "\n" is concatenation) and changes is *)
(*    the sequence of its changed lines, a changed line being the pair     *)
(*    <<index of the chunk in the file, position in the chunk>>;           *)
(*  - a function that may throw returns [threw, value].                    *)
(***************************************************************************)
EXTENDS Integers, Sequences, FiniteSets, TLC

(***************************************************************************)
(* Bounds of the model.                                                    *)
(***************************************************************************)
\* files in a diff
MaxFiles == 2
\* chunks in a file of a one-file diff
MaxHunks == 4
\* entries in the "reviews" array of one completion reply
MaxReviews == 2
\* entries in the list given to createComment when it is checked on its own
MaxResponses == 2

(***************************************************************************)
(* Program constants.                                                      *)
(***************************************************************************)
\* main.ts:65
maxChangesPerChunk == 100
\* main.ts:71, file.chunks.length <= 3
FewChunks == 3
\* main.ts:92, chunk.changes.length < 3
MinChanges == 3
\* main.ts:250, aiResponse.reviewComment.length < 20
MinCommentLength == 20
\* main.ts:11, the fallback "10"
DefaultMaxComments == 10
\* main.ts:341, process.exit(1)
FailureExitCode == 1

Undefined == "<undefined>"

(***************************************************************************)
(* JavaScript numbers.                                                     *)
(***************************************************************************)
IntNum(k) == [cls |-> "int", n |-> k]
FracNum(k) == [cls |-> "frac", n |-> k]
NaN == [cls |-> "nan", n |-> 0]
Infinity == [cls |-> "inf", n |-> 0]

isNaN(x) == x.cls = "nan"

\* x <= 0 as JavaScript evaluates it (false for NaN)
LeqZero(x) ==
  CASE x.cls = "int" -> x.n <= 0
    [] x.cls = "frac" -> x.n < 0
    [] OTHER -> FALSE

IsPositiveInteger(x) == x.cls = "int" /\ x.n > 0

\* Number(v) on the lineNumber values the replies of the model carry
Number(v) ==
  CASE v = "7" -> IntNum(7)
    [] v = "2" -> IntNum(2)
    [] v = "0" -> IntNum(0)
    [] v = "-1" -> IntNum(0 - 1)
    [] v = "1.5" -> FracNum(1)
    [] v = "Infinity" -> Infinity
    [] OTHER -> NaN

\* parseInt(v, 10) on the MAX_COMMENTS_PER_PR inputs of the model
parseInt(v) ==
  CASE v = "10" -> IntNum(DefaultMaxComments)
    [] v = "1" -> IntNum(1)
    [] v = "0" -> IntNum(0)
    [] v = "-1" -> IntNum(0 - 1)
    [] OTHER -> NaN

Min(a, b) == IF a <= b THEN a ELSE b
Max(a, b) == IF a >= b THEN a ELSE b

\* ToIntegerOrInfinity(end) clamped by Array.prototype.slice to 0..len
SliceEnd(len, end) ==
  CASE end.cls = "nan" -> 0
    [] end.cls = "inf" -> len
    [] end.cls = "int" /\ end.n < 0 -> Max(len + end.n, 0)
    [] end.cls = "frac" /\ end.n < 0 -> Max(len + end.n + 1, 0)
    [] OTHER -> Min(end.n, len)

\* array.slice(0, end)
slice(array, end) == SubSeq(array, 1, SliceEnd(Len(array), end))

RECURSIVE flat(_)
\* the concatenation of a sequence of sequences (flatMap, join)
flat(ss) == IF ss = <<>> THEN <<>> ELSE Head(ss) \o flat(Tail(ss))

Range(s) == {s[k] : k \in 1..Len(s)}

SeqsUpTo(S, n) == UNION {[1..k -> S] : k \in 0..n}

(***************************************************************************)
(* The parsed diff (parse-diff's File and Chunk).  A file of the model is  *)
(* [to, sizes]: sizes[i] is the number of changes of its i-th chunk.       *)
(***************************************************************************)
\* file.chunks
chunks(file) ==
  [i \in 1..Len(file.sizes) |->
     [content |-> <<i>>,
      changes |-> [k \in 1..file.sizes[i] |-> <<i, k>>]]]

\* the numbers of changes a chunk of the model may have: below the minimum of
\* 3, the minimum, a size two of which pass the ceiling of 100 (98 + 2 is
\* the ceiling, 98 + 3 is past it), and a size past the ceiling
HunkSizes == {2, 3, 98, 101}

\* the paths of the files of a diff, by position
FileNames == <<"a.ts", "b.ts", "c.ts", "d.ts">>

\* file.to of the k-th file: a path, a deleted file, or no destination
ToValues(k) == {FileNames[k], "/dev/null", Undefined}

\* the files of a one-file diff: every chunk list up to MaxHunks
WideFiles ==
  {[to |-> FileNames[1], sizes |-> z] : z \in SeqsUpTo(HunkSizes, MaxHunks)}

\* the chunk lists of the files of a diff of several files
NarrowSizes == {<<>>, <<2, 98, 98>>}

NarrowFile(k) == {[to |-> t, sizes |-> z] : t \in ToValues(k), z \in NarrowSizes}

RECURSIVE NarrowDiffs(_)
\* the diffs of exactly n narrow files
NarrowDiffs(n) ==
  IF n = 0 THEN {<<>>}
  ELSE {Append(d, file) : d \in NarrowDiffs(n - 1), file \in NarrowFile(n)}

\* what parseDiff returns for the diff texts of the model: a diff of one
\* wide file, or a diff of up to MaxFiles narrow files
WideDiffs == {<<wide>> : wide \in WideFiles}
SeveralFiles == UNION {NarrowDiffs(n) : n \in 0..MaxFiles}

(***************************************************************************)
(* createPrompt, getAIResponse, createComment.                             *)
(***************************************************************************)
\* what createPrompt embeds of the file and the chunk
createPrompt(file, chunk) ==
  [to |-> file.to, content |-> chunk.content, changes |-> chunk.changes]

NullValue == [kind |-> "null", list |-> <<>>]
UndefinedValue == [kind |-> "undefined", list |-> <<>>]
ArrayValue(list) == [kind |-> "array", list |-> list]
\* a "reviews" value that is neither absent nor an array (a string)
StringValue == [kind |-> "string", list |-> <<>>]

\* if (aiResponse)
Truthy(v) == v.kind \in {"array", "string"}

\* The completion call.  reply.outcome is what the service did: "error" (the
\* request threw), "notjson" (the content is not JSON), "empty" (no content,
\* parsed as "{}"), "json" (a JSON object whose "reviews" is reply.reviews).
getAIResponse(reply) ==
  CASE reply.outcome = "error" -> NullValue
    [] reply.outcome = "notjson" -> NullValue
    [] reply.outcome = "empty" -> UndefinedValue
    [] OTHER -> reply.reviews

Skip == [threw |-> FALSE, value |-> <<>>]
Throw == [threw |-> TRUE, value |-> <<>>]
Return(v) == [threw |-> FALSE, value |-> v]

\* the callback of flatMap in createComment, for one entry of the reply
commentOf(file, aiResponse) ==
  IF file.to = Undefined THEN Skip
  ELSE LET lineNumber == Number(aiResponse.lineNumber)
       IN IF isNaN(lineNumber) \/ LeqZero(lineNumber) THEN Skip
          ELSE IF aiResponse.reviewComment = Undefined THEN Throw
          ELSE IF Len(aiResponse.reviewComment) < MinCommentLength THEN Skip
          ELSE Return(<<[body |-> aiResponse.reviewComment,
                         path |-> file.to,
                         line |-> lineNumber]>>)

createComment(file, aiResponses) ==
  IF aiResponses.kind # "array" THEN Throw
  ELSE LET each == [k \in 1..Len(aiResponses.list) |->
                      commentOf(file, aiResponses.list[k])]
       IN IF \E k \in 1..Len(each) : each[k].threw THEN Throw
          ELSE Return(flat([k \in 1..Len(each) |-> each[k].value]))

(***************************************************************************)
(* The state of one run.                                                   *)
(***************************************************************************)
VARIABLES
  pc,                   \* where main() is
  exitCode,             \* the exit status of the process, -1 while it runs
  failure,              \* the call that threw, "none" while none has
  MAX_COMMENTS_PER_PR,  \* main.ts:11
  eventAction,          \* eventData.action, "" outside main.ts:281-287
  remote,               \* what the diff endpoint answers in this run
  diff,                 \* main's diff
  filteredDiff,         \* main's filteredDiff, the files given to analyzeCode
  f,                    \* analyzeCode: the index of file in parsedDiff
  i,                    \* analyzeCode: the index of chunk in file.chunks
  prompt,               \* the prompt of the completion call in flight
  calls,                \* the prompts of all completion calls, in order
  comments,             \* analyzeCode's comments
  result,               \* <<the list analyzeCode returned>>, <<>> before
  reviews,              \* the comment lists given to createReview, in order
  ccFile,               \* createComment on its own: file
  ccResponses,          \* createComment on its own: aiResponses
  ccResult              \* createComment on its own: <<what it did>>

vars ==
  <<pc, exitCode, failure, MAX_COMMENTS_PER_PR, eventAction, remote, diff,
    filteredDiff, f, i, prompt, calls, comments, result, reviews,
    ccFile, ccResponses, ccResult>>

ccVars == <<ccFile, ccResponses, ccResult>>
configVars == <<MAX_COMMENTS_PER_PR, remote>>
loopVars == <<f, i, prompt, calls, comments>>

NoPrompt == [to |-> Undefined, content |-> <<>>, changes |-> <<>>]
NoDiff == [data |-> "unset", files |-> <<>>]
NoFile == [to |-> Undefined, sizes |-> <<>>]

\* core.getInput("MAX_COMMENTS_PER_PR"): unset, a limit, a negative number,
\* not a number
MaxCommentsInputs == {"", "1", "-1", "none"}

\* core.getInput("MAX_COMMENTS_PER_PR") || "10"
OrDefault(input) == IF input = "" THEN "10" ELSE input

\* response.data of the diff endpoint: null, the empty string, or a diff text
Remotes(diffs) ==
  {[data |-> "null", files |-> <<>>], [data |-> "empty", files |-> <<>>]}
  \cup {[data |-> "text", files |-> d] : d \in diffs}

Init ==
  /\ pc = "getPRDetails"
  /\ exitCode = 0 - 1
  /\ failure = "none"
  /\ \/ /\ MAX_COMMENTS_PER_PR \in {parseInt(OrDefault(v)) : v \in MaxCommentsInputs}
        /\ remote \in Remotes(SeveralFiles)
     \/ /\ MAX_COMMENTS_PER_PR = parseInt(OrDefault(""))
        /\ remote \in Remotes(WideDiffs)
  /\ eventAction = ""
  /\ diff = NoDiff
  /\ filteredDiff = <<>>
  /\ f = 0
  /\ i = 0
  /\ prompt = NoPrompt
  /\ calls = <<>>
  /\ comments = <<>>
  /\ result = <<>>
  /\ reviews = <<>>
  /\ ccFile = NoFile
  /\ ccResponses = NullValue
  /\ ccResult = <<>>

(***************************************************************************)
(* main(), up to analyzeCode.                                              *)
(***************************************************************************)
\* a rejected await or a throw in main: nothing catches it before main().catch
Reject(what) ==
  /\ pc' = "rejected"
  /\ failure' = what

\* getPRDetails(): read and parse the payload, then pulls.get
GetPRDetails ==
  /\ pc = "getPRDetails"
  /\ \E outcome \in {"ok", "payload", "metadata"} :
       IF outcome = "ok"
       THEN pc' = "readEvent" /\ UNCHANGED failure
       ELSE Reject(outcome)
  /\ UNCHANGED <<exitCode, configVars, eventAction, diff, filteredDiff,
                 loopVars, result, reviews, ccVars>>

\* main.ts:281-285, the second read of the payload, which gives its action
ReadEvent ==
  /\ pc = "readEvent"
  /\ \E outcome \in {"opened", "synchronize", "payload"} :
       IF outcome = "payload"
       THEN Reject(outcome) /\ UNCHANGED eventAction
       ELSE pc' = "fetchDiff" /\ eventAction' = outcome /\ UNCHANGED failure
  /\ UNCHANGED <<exitCode, configVars, diff, filteredDiff, loopVars, result,
                 reviews, ccVars>>

\* String(response.data): null becomes the text "null", in which parseDiff
\* finds no file
String(response) ==
  IF response.data = "null" THEN [data |-> "text", files |-> <<>>] ELSE response

\* a slip: the failed request is taken for "no diff"
FetchFailedMutant ==
  /\ failure' = "diff"
  /\ diff' = [data |-> "null", files |-> <<>>]
  /\ pc' = "checkDiff"

\* what a failed diff request does to main
FetchFailed ==
  /\ Reject("diff")
  /\ UNCHANGED diff

\* main.ts:287-308: compareCommits on "synchronize", getDiff otherwise;
\* eventData is not read again
FetchDiff ==
  /\ pc = "fetchDiff"
  /\ \E outcome \in {"ok", "diff"} :
       IF outcome = "ok"
       THEN /\ diff' = IF eventAction = "synchronize"
                       THEN String(remote) ELSE remote
            /\ pc' = "checkDiff"
            /\ UNCHANGED failure
       ELSE FetchFailed
  /\ eventAction' = ""
  /\ UNCHANGED <<exitCode, configVars, filteredDiff, loopVars, result,
                 reviews, ccVars>>

\* core.getInput("exclude"), left at its default: excludePatterns is [""]
excludePatterns == <<"">>

\* minimatch(path, pattern) for the empty pattern: "" only matches ""
minimatch(path, pattern) == pattern = "" /\ path = ""

\* file.to ?? ""
ToOrEmpty(file) == IF file.to = Undefined THEN "" ELSE file.to

\* main.ts:322-326
Excluded(file) ==
  \E k \in 1..Len(excludePatterns) : minimatch(ToOrEmpty(file), excludePatterns[k])

\* SelectSeq with the order kept
FilterDiff(parsedDiff) == SelectSeq(parsedDiff, LAMBDA file : ~Excluded(file))

\* main.ts:310-328: "No diff found", or parse, filter and enter analyzeCode
CheckDiff ==
  /\ pc = "checkDiff"
  /\ IF diff.data \in {"null", "empty"}
     THEN /\ pc' = "returned"
          /\ UNCHANGED <<filteredDiff, f>>
     ELSE /\ filteredDiff' = FilterDiff(diff.files)
          /\ f' = 1
          /\ pc' = "forFile"
  /\ UNCHANGED <<exitCode, failure, configVars, eventAction, diff, i, prompt, calls,
                 comments, result, reviews, ccVars>>

(***************************************************************************)
(* analyzeCode().                                                          *)
(***************************************************************************)
file == filteredDiff[f]

\* createPrompt, then the call of getAIResponse: the run waits at `site`
Ask(chunk, site) ==
  /\ prompt' = createPrompt(file, chunk)
  /\ calls' = Append(calls, prompt')
  /\ pc' = site

\* main.ts:73-76
combinedChunkOfFile(aFile) ==
  [content |-> flat([k \in 1..Len(chunks(aFile)) |-> chunks(aFile)[k].content]),
   changes |-> flat([k \in 1..Len(chunks(aFile)) |-> chunks(aFile)[k].changes])]

\* main.ts:67-86: one turn of the loop over the files
ForFile ==
  /\ pc = "forFile"
  /\ IF f > Len(filteredDiff)
     THEN /\ pc' = "slice"
          /\ UNCHANGED <<f, i, prompt, calls>>
     ELSE IF file.to = "/dev/null"
     THEN /\ f' = f + 1
          /\ UNCHANGED <<pc, i, prompt, calls>>
     ELSE IF Len(chunks(file)) <= FewChunks
     THEN /\ Ask(combinedChunkOfFile(file), "awaitWhole")
          /\ UNCHANGED <<f, i>>
     ELSE /\ pc' = "forChunk"
          /\ i' = 1
          /\ UNCHANGED <<f, prompt, calls>>
  /\ UNCHANGED <<exitCode, failure, configVars, eventAction, diff, filteredDiff, comments,
                 result, reviews, ccVars>>

\* main.ts:92
TooSmall(chunk) == Len(chunk.changes) < MinChanges

\* main.ts:97
TooLarge(chunk) == Len(chunk.changes) > maxChangesPerChunk

\* main.ts:111
combinedChanges(chunk, nextChunk) == chunk.changes \o nextChunk.changes

\* a slip: the next chunk is taken whatever the two add up to
CanCombineMutant(aFile, k) == k < Len(chunks(aFile))

\* main.ts:109-113: there is a next chunk and the two fit under the ceiling
CanCombine(aFile, k) ==
  /\ k < Len(chunks(aFile))
  /\ Len(combinedChanges(chunks(aFile)[k], chunks(aFile)[k + 1]))
       <= maxChangesPerChunk

\* main.ts:115-118
combinedChunk(chunk, nextChunk) ==
  [content |-> chunk.content \o nextChunk.content,
   changes |-> combinedChanges(chunk, nextChunk)]

\* main.ts:88-137: one turn of the loop over the chunks of a file
ForChunk ==
  /\ pc = "forChunk"
  /\ IF i > Len(chunks(file))
     THEN /\ f' = f + 1
          /\ pc' = "forFile"
          /\ UNCHANGED <<i, prompt, calls>>
     ELSE LET chunk == chunks(file)[i]
          IN IF TooSmall(chunk)
             THEN /\ i' = i + 1
                  /\ UNCHANGED <<pc, f, prompt, calls>>
             ELSE IF TooLarge(chunk)
             THEN /\ Ask(chunk, "awaitLarge")
                  /\ UNCHANGED <<f, i>>
             ELSE IF CanCombine(file, i)
             THEN /\ Ask(combinedChunk(chunk, chunks(file)[i + 1]), "awaitCombined")
                  /\ UNCHANGED <<f, i>>
             ELSE /\ Ask(chunk, "awaitSingle")
                  /\ UNCHANGED <<f, i>>
  /\ UNCHANGED <<exitCode, failure, configVars, eventAction, diff, filteredDiff, comments,
                 result, reviews, ccVars>>

LongComment == "This pointer may be null here."

\* the entries of a "reviews" array in a run: a complete one, and one
\* without reviewComment
RunEntries ==
  {[lineNumber |-> "7", reviewComment |-> LongComment],
   [lineNumber |-> "7", reviewComment |-> Undefined]}

\* what the completion service may do at one call
Replies ==
  {[outcome |-> o, reviews |-> UndefinedValue] : o \in {"error", "notjson", "empty"}}
  \cup {[outcome |-> "json", reviews |-> v] : v \in {UndefinedValue, StringValue}}
  \cup {[outcome |-> "json", reviews |-> ArrayValue(list)] :
          list \in SeqsUpTo(RunEntries, MaxReviews)}

\* where the loops go on after the call made at `site`
Resume(site) ==
  CASE site = "awaitWhole" -> f' = f + 1 /\ pc' = "forFile" /\ UNCHANGED i
    [] site = "awaitCombined" -> i' = i + 2 /\ pc' = "forChunk" /\ UNCHANGED f
    [] OTHER -> i' = i + 1 /\ pc' = "forChunk" /\ UNCHANGED f

\* main.ts:79-85, 100-106, 121-131, 137-143: the call returns, createComment
\* runs on a truthy aiResponse, and what it returns is pushed
AwaitAIResponse ==
  /\ pc \in {"awaitWhole", "awaitLarge", "awaitCombined", "awaitSingle"}
  /\ \E reply \in Replies :
       LET aiResponse == getAIResponse(reply)
           newComments == createComment(file, aiResponse)
       IN IF ~Truthy(aiResponse)
          THEN /\ Resume(pc)
               /\ UNCHANGED <<comments, failure>>
          ELSE IF newComments.threw
          THEN /\ Reject("createComment")
               /\ UNCHANGED <<comments, f, i>>
          ELSE /\ comments' = comments \o newComments.value
               /\ Resume(pc)
               /\ UNCHANGED failure
  /\ prompt' = NoPrompt
  /\ UNCHANGED <<exitCode, configVars, eventAction, diff, filteredDiff, calls, result,
                 reviews, ccVars>>

(***************************************************************************)
(* The end of analyzeCode and of main.                                     *)
(***************************************************************************)
\* a slip: the empty list is submitted too
ShouldSubmitMutant(list) == Len(list) >= 0

\* main.ts:329
ShouldSubmit(list) == Len(list) > 0

\* a slip: the end of the slice is off by one
limitMutant(list) ==
  slice(list, [MAX_COMMENTS_PER_PR EXCEPT !.n = @ + 1])

\* main.ts:150, comments.slice(0, MAX_COMMENTS_PER_PR)
limit(list) == slice(list, MAX_COMMENTS_PER_PR)

\* main.ts:150 and 328-329
AnalyzeReturn ==
  /\ pc = "slice"
  /\ result' = <<limit(comments)>>
  /\ pc' = IF ShouldSubmit(result'[1]) THEN "createReview" ELSE "returned"
  /\ UNCHANGED <<exitCode, failure, configVars, eventAction, diff, filteredDiff, loopVars,
                 reviews, ccVars>>

\* createReviewComment(): the one createReview request, which may fail
CreateReviewComment ==
  /\ pc = "createReview"
  /\ reviews' = Append(reviews, result[1])
  /\ \E outcome \in {"ok", "review"} :
       IF outcome = "ok"
       THEN pc' = "returned" /\ UNCHANGED failure
       ELSE Reject(outcome)
  /\ UNCHANGED <<exitCode, configVars, eventAction, diff, filteredDiff, loopVars, result,
                 ccVars>>

\* main() resolved: the process ends with status 0
ProcessEnd ==
  /\ pc = "returned"
  /\ pc' = "exited"
  /\ exitCode' = 0
  /\ UNCHANGED <<failure, configVars, eventAction, diff, filteredDiff, loopVars, result,
                 reviews, ccVars>>

\* main().catch: main.ts:339-342
TopLevelCatch ==
  /\ pc = "rejected"
  /\ pc' = "exited"
  /\ exitCode' = FailureExitCode
  /\ UNCHANGED <<failure, configVars, eventAction, diff, filteredDiff, loopVars, result,
                 reviews, ccVars>>

Next ==
  \/ GetPRDetails
  \/ ReadEvent
  \/ FetchDiff
  \/ CheckDiff
  \/ ForFile
  \/ ForChunk
  \/ AwaitAIResponse
  \/ AnalyzeReturn
  \/ CreateReviewComment
  \/ ProcessEnd
  \/ TopLevelCatch

Spec == Init /\ [][Next]_vars

(***************************************************************************)
(* createComment on its own: the file and the list are drawn, and the one  *)
(* step applies it.                                                        *)
(***************************************************************************)
ExactComment == "Twenty characters ok"
AlmostComment == "Nineteen characters"

LineNumberValues == {"7", "2", "0", "-1", "1.5", "Infinity", "abc", Undefined}
ReviewCommentValues == {LongComment, ExactComment, AlmostComment, Undefined}

CommentEntries ==
  {[lineNumber |-> l, reviewComment |-> c] :
     l \in LineNumberValues, c \in ReviewCommentValues}

\* a file whose new version has three lines, and a file with no destination
CommentFiles ==
  {[to |-> t, sizes |-> <<3>>] : t \in {FileNames[1], Undefined}}

InitComment ==
  /\ pc = "createComment"
  /\ exitCode = 0 - 1
  /\ failure = "none"
  /\ MAX_COMMENTS_PER_PR = parseInt(OrDefault(""))
  /\ eventAction = ""
  /\ remote = NoDiff
  /\ diff = NoDiff
  /\ filteredDiff = <<>>
  /\ f = 0
  /\ i = 0
  /\ prompt = NoPrompt
  /\ calls = <<>>
  /\ comments = <<>>
  /\ result = <<>>
  /\ reviews = <<>>
  /\ ccFile \in CommentFiles
  /\ ccResponses \in {ArrayValue(list) : list \in SeqsUpTo(CommentEntries, MaxResponses)}
  /\ ccResult = <<>>

CreateCommentCall ==
  /\ pc = "createComment"
  /\ ccResult' = <<createComment(ccFile, ccResponses)>>
  /\ pc' = "createCommentDone"
  /\ UNCHANGED <<exitCode, failure, configVars, eventAction, diff, filteredDiff,
                 loopVars, result, reviews, ccFile, ccResponses>>

NextComment == CreateCommentCall

SpecComment == InitComment /\ [][NextComment]_vars

(***************************************************************************)
(* Vocabulary of the properties.                                           *)
(***************************************************************************)
\* analyzeCode was entered and has ended, by returning or by throwing
AnalyzeEnded == result # <<>> \/ failure = "createComment"

\* the files analyzeCode reviews: those it does not skip as deleted
Reviewed == {g \in 1..Len(filteredDiff) : filteredDiff[g].to # "/dev/null"}

\* the completion calls made for the g-th file, in order
CallsFor(g) == SelectSeq(calls, LAMBDA call : call.to = filteredDiff[g].to)

\* the position of a path among the files of the diff
FileIndex(path) == CHOOSE k \in 1..Len(FileNames) : FileNames[k] = path

\* the number of changes of a prompt
Count(call) == Len(call.changes)

\* the chunks a prompt holds changed lines or a header of
HunksIn(call) == Range(call.content) \cup {c[1] : c \in Range(call.changes)}

\* the number of lines of the new version of a file: the files of the model
\* are new files made of their changed lines
NewLength(aFile) == Len(combinedChunkOfFile(aFile).changes)

\* a reply entry that has a numeric line number > 0 and a comment of 20
\* characters or more
Acceptable(entry) ==
  /\ ~isNaN(Number(entry.lineNumber))
  /\ ~LeqZero(Number(entry.lineNumber))
  /\ entry.reviewComment # Undefined
  /\ Len(entry.reviewComment) >= MinCommentLength

\* the comment the claims expect for an acceptable entry
Copied(aFile, entry) ==
  [body |-> entry.reviewComment, path |-> aFile.to,
   line |-> Number(entry.lineNumber)]

(***************************************************************************)
(* C1.  No outcome of a completion call (a request error, a reply that is  *)
(* not JSON, JSON without "reviews", a "reviews" entry with a missing      *)
(* field) leaves its unit: none reaches the top-level handler, and a run   *)
(* that exits with the failure status failed somewhere else.               *)
(***************************************************************************)
C1_PerUnitIsolation ==
  /\ failure # "createComment"
  /\ exitCode = FailureExitCode => failure \in {"payload", "metadata", "diff", "review"}

\* MAX_COMMENTS_PER_PR is a count: an integer that is not negative
MaxIsCount == MAX_COMMENTS_PER_PR.cls = "int" /\ MAX_COMMENTS_PER_PR.n >= 0

\* the list returned is the cut of the accumulated list, which is in file order
CutOfAccumulated ==
  (result # <<>> /\ MaxIsCount) =>
    /\ Len(result[1]) <= MAX_COMMENTS_PER_PR.n
    /\ result[1] = SubSeq(comments, 1, Min(Len(comments), MAX_COMMENTS_PER_PR.n))
    /\ \A a, b \in 1..Len(comments) :
         a < b => FileIndex(comments[a].path) <= FileIndex(comments[b].path)

\* a step changes the accumulated list only when a call is answered, and
\* then by adding at its end comments for the file of the call
AppendsOneReply ==
  \/ comments' = comments
  \/ /\ prompt # NoPrompt
     /\ Len(comments') > Len(comments)
     /\ SubSeq(comments', 1, Len(comments)) = comments
     /\ \A k \in (Len(comments) + 1)..Len(comments') : comments'[k].path = prompt.to

C3_SmallHunksNeverSent ==
  \A g \in Reviewed :
    Len(filteredDiff[g].sizes) > FewChunks =>
      \A k \in 1..Len(CallsFor(g)) :
        \A h \in HunksIn(CallsFor(g)[k]) : filteredDiff[g].sizes[h] >= MinChanges

(***************************************************************************)
(* C4.  A prompt has more changes than the ceiling only when it holds one  *)
(* chunk that alone passes the ceiling.                                    *)
(***************************************************************************)
WithinCeiling(call) ==
  \/ Count(call) <= maxChangesPerChunk
  \/ Cardinality(HunksIn(call)) = 1

\* C4 as stated: in both paths, for every file
C4_CeilingInBothPaths ==
  \A k \in 1..Len(calls) : WithinCeiling(calls[k])

\* C4 as amended: for every file with more than 3 chunks, a prompt has more
\* changes than the ceiling only when it holds one chunk that alone passes
\* the ceiling, and a prompt of two chunks never passes it; the one prompt of
\* a file with at most 3 chunks is not held to the ceiling.
C4_CeilingWhenManyChunks ==
  \A g \in Reviewed :
    Len(filteredDiff[g].sizes) > FewChunks =>
      \A k \in 1..Len(CallsFor(g)) : WithinCeiling(CallsFor(g)[k])

\* a prompt of two chunks of a file with more than 3 chunks, at the ceiling
C4_Witness ==
  \E g \in Reviewed :
    /\ Len(filteredDiff[g].sizes) > FewChunks
    /\ \E k \in 1..Len(CallsFor(g)) :
         /\ Cardinality(HunksIn(CallsFor(g)[k])) = 2
         /\ Count(CallsFor(g)[k]) = maxChangesPerChunk

(***************************************************************************)
(* C5.  Every comment createComment returns has a line that is a positive  *)
(* integer and the number of a line of the new version of the file.        *)
(***************************************************************************)
C5_LineIsExistingPositiveInteger ==
  ccResult # <<>> =>
    \A k \in 1..Len(ccResult[1].value) :
      /\ IsPositiveInteger(ccResult[1].value[k].line)
      /\ ccResult[1].value[k].line.n <= NewLength(ccFile)

(***************************************************************************)
(* C6.  createComment returns no comment with a line that is NaN or <= 0   *)
(* or with a body under 20 characters, and for a file with a destination   *)
(* it emits every entry that has a numeric line > 0 and a comment of 20    *)
(* characters or more, in reply order, body, path and line copied.         *)
(***************************************************************************)
C6_ExactlyTheAcceptable ==
  ccResult # <<>> =>
    LET emitted == ccResult[1].value
        kept == SelectSeq(ccResponses.list, Acceptable)
    IN /\ \A k \in 1..Len(emitted) :
            /\ ~isNaN(emitted[k].line)
            /\ ~LeqZero(emitted[k].line)
            /\ Len(emitted[k].body) >= MinCommentLength
       /\ ccFile.to # Undefined =>
            emitted = [k \in 1..Len(kept) |-> Copied(ccFile, kept[k])]

(***************************************************************************)
(* C7.  For every file with at most 3 chunks that is not deleted,          *)
(* analyzeCode makes exactly one completion call, and its prompt carries   *)
(* all changes of all chunks of the file, in chunk order.                  *)
(***************************************************************************)
C7_OneCallPerSmallFile ==
  \A g \in Reviewed :
    Len(filteredDiff[g].sizes) <= FewChunks =>
      /\ Len(CallsFor(g)) <= 1
      /\ \A k \in 1..Len(CallsFor(g)) :
           CallsFor(g)[k] = createPrompt(filteredDiff[g], combinedChunkOfFile(filteredDiff[g]))
      /\ AnalyzeEnded => Len(CallsFor(g)) = 1

(***************************************************************************)
(* C8.  createReview is called at most once, only after analyzeCode has    *)
(* returned with every call answered and only with a non-empty list; when  *)
(* the list is empty, or no diff was found, no review is submitted and the *)
(* process ends with status 0.                                             *)
(***************************************************************************)
C8_ReviewOnceAfterAnalysis ==
  /\ Len(reviews) <= 1
  /\ reviews # <<>> =>
       /\ result # <<>>
       /\ reviews[1] = result[1]
       /\ result[1] # <<>>
       /\ prompt = NoPrompt
       /\ f > Len(filteredDiff)
       /\ pc \in {"returned", "rejected", "exited"}
  /\ (result = <<<<>>>> \/ diff.data \in {"null", "empty"}) =>
       /\ reviews = <<>>
       /\ failure = "none"
       /\ pc \in {"checkDiff", "returned", "exited"}
       /\ pc = "exited" => exitCode = 0

\* a run that submitted its review and ended with status 0
C8_Witness ==
  /\ pc = "exited"
  /\ exitCode = 0
  /\ Len(reviews) = 1
  /\ Len(calls) > 1

(***************************************************************************)
(* C9.  When reading the payload, resolving the PR or fetching the diff    *)
(* fails, nothing recovers: the run is at the top-level handler or has     *)
(* exited with the failure status, and it made no completion call and      *)
(* submitted no review.                                                    *)
(***************************************************************************)
C9_EarlyFailureIsFatal ==
  failure \in {"payload", "metadata", "diff"} =>
    /\ pc \in {"rejected", "exited"}
    /\ pc = "rejected" => ENABLED TopLevelCatch
    /\ pc = "exited" => exitCode = FailureExitCode
    /\ calls = <<>>
    /\ reviews = <<>>

\* a run whose diff request failed and that has exited
C9_Witness ==
  /\ failure = "diff"
  /\ pc = "exited"
  /\ exitCode = FailureExitCode

(***************************************************************************)
(* C10.  For a file with more than 3 chunks the prompts hold, in order,    *)
(* disjoint runs of one chunk or of two chunks next to each other, with    *)
(* increasing indices; the loop never passes the end of the chunks; and    *)
(* every chunk with at least 3 changes is in exactly one prompt.           *)
(***************************************************************************)
C10_AdjacentRunsCoverEligible ==
  \A g \in Reviewed :
    Len(filteredDiff[g].sizes) > FewChunks =>
      LET units == CallsFor(g)
          n == Len(filteredDiff[g].sizes)
      IN /\ \A k \in 1..Len(units) :
              /\ Len(units[k].content) \in {1, 2}
              /\ Len(units[k].content) = 2 =>
                   units[k].content[2] = units[k].content[1] + 1
              /\ HunksIn(units[k]) = Range(units[k].content)
         /\ \A a, b \in 1..Len(units) :
              a < b => units[a].content[Len(units[a].content)] < units[b].content[1]
         /\ (g = f /\ pc = "forChunk") => i <= n + 1
         /\ AnalyzeEnded =>
              \A h \in 1..n :
                filteredDiff[g].sizes[h] >= MinChanges =>
                  Cardinality({k \in 1..Len(units) : h \in HunksIn(units[k])}) = 1

(***************************************************************************)
(* What remains of C6, C7 and C10 when no reply makes createComment throw. *)
(***************************************************************************)
\* C6 for the lists in which every entry has a reviewComment: createComment
\* returns, and what it returns is exactly the acceptable entries
C6_WhenEveryEntryHasComment ==
  (ccResult # <<>> /\ \A k \in 1..Len(ccResponses.list) :
                        ccResponses.list[k].reviewComment # Undefined) =>
    /\ ~ccResult[1].threw
    /\ C6_ExactlyTheAcceptable

\* C7 for the runs in which createComment has not thrown
C7_WhenNothingThrows == failure # "createComment" => C7_OneCallPerSmallFile

\* C10 for the runs in which createComment has not thrown
C10_WhenNothingThrows == failure # "createComment" => C10_AdjacentRunsCoverEligible

====
